---- MODULE Spec2Model ----
(***************************************************************************)
(* A model of PromptLibTool.py: two CSV tables (the fragment library and   *)
(* the prompt history) behind DataManager, the Streamlit script pass that  *)
(* renders the four tabs, and PromptBuilder's prompt assembly.             *)
(*                                                                         *)
(* Text.  A Python string held in a table cell is an atom (a TLA+ string); *)
(* a rendered prompt is a sequence of atoms, so that the order and the     *)
(* separators of its sections are visible.  "" is the empty string.        *)
(*                                                                         *)
(* CSV.  DataFrame.to_csv and pandas.read_csv are not inverse to each      *)
(* other and are modelled by what they do with their default arguments:    *)
(* to_csv writes a missing value (NaN) as the empty field; read_csv reads  *)
(* an empty field and the NA literals as NaN, and reads a column whose     *)
(* present fields all look like numbers as numbers (int64 when no field is *)
(* missing, float64 otherwise), which to_csv then writes canonically.      *)
(* The numeric strings of the model all denote the number seven.           *)
(***************************************************************************)
EXTENDS Integers, Sequences, FiniteSets, TLC

VARIABLES elemFile, histFile, feedback, selected, custom,
          prompt, browser, clock, added, sess

vars == <<elemFile, histFile, feedback, selected, custom,
          prompt, browser, clock, added, sess>>

(***************************************************************************)
(* Bounds of the model.                                                    *)
(***************************************************************************)
MaxRows == 2
MaxHist == 2
MaxActive == 2
MaxSel == 2

(***************************************************************************)
(* Program constants.                                                      *)
(***************************************************************************)
ELEMENT_TYPES == <<"role", "goal", "audience", "context", "output", "tone">>

TypeSet == {ELEMENT_TYPES[i] : i \in DOMAIN ELEMENT_TYPES}

\* The categories rendered with multi_select = True.
MultiSelect == {"audience", "context", "output"}

SectionOrderSorted == <<"audience", "context", "goal", "output", "role", "tone">>

\* The keys of the selections dict in insertion order.
SectionOrder == <<"role", "goal", "audience", "context", "output", "tone">>

FEEDBACK == "Before you provide the response, please ask me any questions"

(***************************************************************************)
(* Inputs the forms accept (text_input and text_area accept any string).   *)
(***************************************************************************)
Titles == {"", "t", "07"}
Contents == {"", "x"}
Names == {"", "n", "NA"}
Customs == {"", "w"}

\* The types picked in the creator and editor forms.
FormTypes == {"role", "audience"}

(***************************************************************************)
(* Cells of a DataFrame: a Python str, NaN, or a number.                   *)
(***************************************************************************)
Str(s) == [k |-> "str", s |-> s]
NaN == [k |-> "nan", s |-> ""]
Num(s) == [k |-> "num", s |-> s]

\* pandas' default na_values, restricted to the atoms of the model.
NA_VALUES == {"", "NA", "nan"}

\* The atoms read_csv parses as a number.
NUMERIC == {"07", "7", "7.0"}

\* Type inference of read_csv on one column of written fields.
ParseColumn(fields) ==
    LET present == {i \in DOMAIN fields : fields[i] \notin NA_VALUES}
        isNum == present # {} /\ \A i \in present : fields[i] \in NUMERIC
        isFloat == (\E i \in DOMAIN fields : fields[i] \in NA_VALUES)
                   \/ (\E i \in present : fields[i] = "7.0")
    IN [i \in DOMAIN fields |->
          IF fields[i] \in NA_VALUES THEN NaN
          ELSE IF isNum THEN Num(IF isFloat THEN "7.0" ELSE "7")
          ELSE Str(fields[i])]

\* The field to_csv writes for a cell (na_rep = "").
WriteCell(c) == IF c.k = "nan" THEN "" ELSE c.s

\* pd.read_csv of prompt_elements.csv: the rows of the file as a DataFrame.
read_elements(rows) ==
    LET t == ParseColumn([i \in DOMAIN rows |-> rows[i].title])
        c == ParseColumn([i \in DOMAIN rows |-> rows[i].content])
    IN [i \in DOMAIN rows |->
          [title |-> t[i], type |-> rows[i].type, content |-> c[i]]]

\* df.to_csv(index=False) of the library table.
write_elements(df) ==
    [i \in DOMAIN df |-> [title |-> WriteCell(df[i].title),
                          type |-> df[i].type,
                          content |-> WriteCell(df[i].content)]]

\* A prompt cell: the rendered text, or NaN when the field read is empty.
PStr(p) == [k |-> "str", p |-> p]
PNaN == [k |-> "nan", p |-> <<>>]

\* pd.read_csv of prompt_history.csv.
read_history(rows) ==
    LET n == ParseColumn([i \in DOMAIN rows |-> rows[i].name])
    IN [i \in DOMAIN rows |->
          [name |-> n[i], timestamp |-> rows[i].timestamp,
           prompt |-> IF rows[i].prompt = <<>> THEN PNaN
                      ELSE PStr(rows[i].prompt)]]

\* df.to_csv(index=False) of the history table.
write_history(df) ==
    [i \in DOMAIN df |-> [name |-> WriteCell(df[i].name),
                          timestamp |-> df[i].timestamp,
                          prompt |-> df[i].prompt.p]]

(***************************************************************************)
(* DataManager.  A file is absent or holds the header and its rows.        *)
(***************************************************************************)
Absent == [exists |-> FALSE, rows |-> <<>>]
File(rows) == [exists |-> TRUE, rows |-> rows]

LoadWithoutCreate(file) == file

\* load_data: the file after the call (created with the header when missing).
load_data_file(file) == IF file.exists THEN file ELSE File(<<>>)

\* load_data: the table returned for the library.
load_elements(file) == IF file.exists THEN read_elements(file.rows) ELSE <<>>

\* load_data: the table returned for the history.
load_history(file) == IF file.exists THEN read_history(file.rows) ELSE <<>>

\* save_data of the library table.
save_elements(df) == File(write_elements(df))

\* save_data of the history table.
save_history(df) == File(write_history(df))

\* save_prompt: load, append one row stamped with the clock, rewrite.
save_prompt(file, name, text, now) ==
    LET df == load_history(file)
        new_row == [name |-> Str(name), timestamp |-> now, prompt |-> PStr(text)]
    IN save_history(Append(df, new_row))

(***************************************************************************)
(* PromptBuilder.  A widget value is a single option (selectbox) or a list *)
(* of options in the order the user picked them (multiselect); an option   *)
(* is a sentinel or a title cell of the loaded table.                      *)
(***************************************************************************)
Skip == Str("Skip")
WYO == Str("Write your own")

One(v) == [list |-> FALSE, items |-> <<v>>]
Many(vs) == [list |-> TRUE, items |-> vs]

InSeq(x, s) == \E i \in DOMAIN s : s[i] = x

\* A Python string as a sequence of atoms.
Text(s) == IF s = "" THEN <<>> ELSE <<s>>

RECURSIVE Join(_, _)
\* sep.join(parts)
Join(parts, sep) ==
    IF Len(parts) = 0 THEN <<>>
    ELSE IF Len(parts) = 1 THEN parts[1]
    ELSE parts[1] \o sep \o Join(Tail(parts), sep)

\* elements = df[df['type'] == element_type]
OfType(df, element_type) == SelectSeq(df, LAMBDA r : r.type = element_type)

\* options = ["Skip", "Write your own"] + elements['title'].tolist()
Options(element_type, df) ==
    LET elements == OfType(df, element_type)
    IN <<Skip, WYO>> \o [i \in DOMAIN elements |-> elements[i].title]

\* _create_section: the widget's value and the free text shown with it.
create_section(element_type, sel, cust) ==
    [section |-> element_type,
     selected |-> sel[element_type],
     custom |-> IF InSeq(WYO, sel[element_type].items)
                THEN cust[element_type] ELSE ""]

\* The selections dict as render fills it, key after key.
RenderSelections(sel, cust) ==
    [i \in DOMAIN SectionOrder |-> create_section(SectionOrder[i], sel, cust)]

\* section.title(), with audience relabelled.
SectionTitle(section) ==
    CASE section = "role" -> "Role"
      [] section = "goal" -> "Goal"
      [] section = "audience" -> "Target Audience"
      [] section = "context" -> "Context"
      [] section = "output" -> "Output"
      [] section = "tone" -> "Tone"

\* x == y on two cells: NaN equals nothing, a number is not a string.
Match(x, y) == x.k # "nan" /\ y.k # "nan" /\ x = y

LookupOrEmpty(df, a) ==
    LET hits == {i \in DOMAIN df : Match(df[i].title, a)}
    IN IF hits = {} THEN [found |-> TRUE, cell |-> Str("")]
       ELSE [found |-> TRUE,
             cell |-> df[CHOOSE i \in hits : \A j \in hits : i <= j].content]

\* df[df['title'] == a]['content'].values[0]: the first row whose title
\* matches, whatever its type; no row is an IndexError.
Lookup(df, a) ==
    LET hits == {i \in DOMAIN df : Match(df[i].title, a)}
    IN IF hits = {} THEN [found |-> FALSE, cell |-> NaN]
       ELSE [found |-> TRUE,
             cell |-> df[CHOOSE i \in hits : \A j \in hits : i <= j].content]

\* str(content) inside an f-string.
Format(c) == IF c.k = "nan" THEN <<"nan">> ELSE Text(c.s)

Crash == [ok |-> FALSE, text |-> <<>>]

UsesFreeTextWhenAlone(items) == items = <<WYO>>

\* "Write your own" in data['selected']
UsesFreeText(items) == InSeq(WYO, items)

\* The part a multi-select section adds: [ok, parts].
MultiPart(data, df) ==
    IF UsesFreeText(data.selected.items)
    THEN [ok |-> TRUE,
          parts |-> IF data.custom = "" THEN <<>>
                    ELSE << <<SectionTitle(data.section), ":", "\n">>
                            \o Text(data.custom) >>]
    ELSE LET refs == SelectSeq(data.selected.items,
                               LAMBDA a : a # Skip /\ a # WYO)
             hit == [i \in DOMAIN refs |-> Lookup(df, refs[i])]
         IN IF \E i \in DOMAIN refs : ~hit[i].found
            THEN [ok |-> FALSE, parts |-> <<>>]
            ELSE IF \E i \in DOMAIN refs : hit[i].cell.k # "str"
            THEN [ok |-> FALSE, parts |-> <<>>]
            ELSE LET content ==
                       Join([i \in DOMAIN refs |-> Text(hit[i].cell.s)], <<"\n">>)
                 IN [ok |-> TRUE,
                     parts |-> IF content = <<>> THEN <<>>
                               ELSE << <<SectionTitle(data.section), ":", "\n">>
                                       \o content >>]

\* The part a single-select section adds: [ok, parts].
SinglePart(data, df) ==
    LET v == data.selected.items[1]
    IN IF v = WYO
       THEN [ok |-> TRUE,
             parts |-> << <<SectionTitle(data.section), ":", " ">>
                          \o Text(data.custom) >>]
       ELSE LET hit == Lookup(df, v)
            IN IF ~hit.found THEN [ok |-> FALSE, parts |-> <<>>]
               ELSE [ok |-> TRUE,
                     parts |-> << <<SectionTitle(data.section), ":", " ">>
                                  \o Format(hit.cell) >>]

SkippedListsOnly(data) ==
    data.selected.list /\ (data.selected.items = <<>>
                           \/ data.selected.items = <<Skip>>)

\* The test that makes the loop continue past a section.
Skipped(data) ==
    \/ ~data.selected.list /\ data.selected.items[1] = Skip
    \/ data.selected.list /\ (data.selected.items = <<>>
                              \/ data.selected.items = <<Skip>>)

\* One turn of the loop over selections.items().
SectionPart(data, df) ==
    IF Skipped(data) THEN [ok |-> TRUE, parts |-> <<>>]
    ELSE IF data.section \in {"audience", "context", "output"}
    THEN MultiPart(data, df)
    ELSE SinglePart(data, df)

RECURSIVE PromptParts(_, _, _)
\* prompt_parts after the loop has handled selections[i..]: [ok, parts].
PromptParts(selections, df, i) ==
    IF i > Len(selections) THEN [ok |-> TRUE, parts |-> <<>>]
    ELSE LET here == SectionPart(selections[i], df)
         IN IF ~here.ok THEN here
            ELSE LET rest == PromptParts(selections, df, i + 1)
                 IN IF ~rest.ok THEN rest
                    ELSE [ok |-> TRUE, parts |-> here.parts \o rest.parts]

\* _generate_prompt: [ok, text]; ok is FALSE when a lookup raised.
generate_prompt(selections, df, recursive_feedback) ==
    LET r == PromptParts(selections, df, 1)
    IN IF ~r.ok THEN Crash
       ELSE [ok |-> TRUE,
             text |-> Join(r.parts, <<"\n", "\n">>)
                      \o (IF recursive_feedback
                          THEN <<"\n", "\n", FEEDBACK>> ELSE <<>>)]

(***************************************************************************)
(* One pass of the script (main): the four tabs render in turn.  A pass is *)
(* started by the page load or by one user interaction, the click.         *)
(***************************************************************************)
NoClick == [op |-> "load", i |-> 0, title |-> "", type |-> "", content |-> "",
            name |-> "", filter |-> "All"]
Click(op) == [NoClick EXCEPT !.op = op]

DefaultSelected == [c \in TypeSet |-> IF c \in MultiSelect THEN Many(<<>>)
                                      ELSE One(Skip)]
DefaultCustom == [c \in TypeSet |-> ""]

\* df.drop(index): the table without the row at position i.
Drop(df, i) == [j \in 1..(Len(df) - 1) |-> IF j < i THEN df[j] ELSE df[j + 1]]

CreatorTabUpsert(file, click) ==
    IF click.op = "add"
    THEN LET df == load_elements(file)
             new_row == [title |-> Str(click.title), type |-> click.type,
                         content |-> Str(click.content)]
             same == {i \in DOMAIN df : df[i].title = new_row.title
                                        /\ df[i].type = new_row.type}
         IN IF same = {} THEN save_elements(Append(df, new_row))
            ELSE save_elements([i \in DOMAIN df |->
                                  IF i \in same THEN new_row ELSE df[i]])
    ELSE file

\* ElementCreator.render: the library file after the tab has rendered.
CreatorTab(file, click) ==
    IF click.op = "add"
    THEN LET df == load_elements(file)
             new_row == [title |-> Str(click.title), type |-> click.type,
                         content |-> Str(click.content)]
         IN save_elements(Append(df, new_row))
    ELSE file

\* filtered_df: the positions of the rows the editor renders.
Rendered(df, selected_type) ==
    {i \in DOMAIN df : selected_type = "All" \/ df[i].type = selected_type}

\* ElementEditor.render and _render_element: [file, rerun].
EditorTab(file, click) ==
    LET df == load_elements(file)
        loaded == load_data_file(file)
    IN IF click.op = "update" /\ click.i \in Rendered(df, click.filter)
       THEN [file |-> save_elements(
                        [df EXCEPT ![click.i] =
                            [title |-> Str(click.title), type |-> click.type,
                             content |-> Str(click.content)]]),
             rerun |-> TRUE]
       ELSE IF click.op = "delete" /\ click.i \in Rendered(df, click.filter)
       THEN [file |-> save_elements(Drop(df, click.i)), rerun |-> TRUE]
       ELSE [file |-> loaded, rerun |-> FALSE]

\* PromptBuilder.render up to _generate_prompt: [ok, text].
BuilderTab(file, sel, cust, fb) ==
    generate_prompt(RenderSelections(sel, cust), load_elements(file), fb)

\* _display_prompt: the history file after the Save Prompt button.
DisplayPrompt(hist, click, text, now) ==
    IF click.op = "save" /\ click.name # ""
    THEN save_prompt(hist, click.name, text, now)
    ELSE hist

\* PromptBrowser.render: what the tab shows.
BrowserTab(hist) == IF hist.exists THEN "listed" ELSE "warning"

\* The whole pass, from the state it starts in: the state it ends in.
\* experimental_rerun abandons the pass and starts one without a click.
Pass(elem, hist, sel, cust, fb, now, click) ==
    LET created == CreatorTab(elem, click)
        edited == EditorTab(created, click)
        file == load_data_file(edited.file)
        generated == BuilderTab(file, sel, cust, fb)
        saved == IF generated.ok /\ ~edited.rerun
                 THEN DisplayPrompt(hist, click, generated.text, now)
                 ELSE hist
    IN [elem |-> file,
        hist |-> saved,
        prompt |-> generated,
        browser |-> IF generated.ok THEN BrowserTab(saved) ELSE "none",
        clock |-> IF saved # hist THEN now + 1 ELSE now]

RunPass(sel, cust, fb, click) ==
    \E r \in {Pass(elemFile, histFile, sel, cust, fb, clock, click)} :
       /\ elemFile' = r.elem
       /\ histFile' = r.hist
       /\ prompt' = r.prompt
       /\ browser' = r.browser
       /\ clock' = r.clock
       /\ selected' = sel
       /\ custom' = cust
       /\ feedback' = fb
       /\ added' = IF click.op = "add"
                   THEN <<click.title, click.type, click.content>>
                   ELSE <<>>
       /\ sess' = sess

\* A browser session between two file operations of a handler: the table
\* it has loaded and changed in memory, the rows the file held when it was
\* loaded, the file it is about to rewrite, and the changes it has been
\* told succeeded.
Sessions == {1, 2}
Idle == [pc |-> "idle", df |-> <<>>, seen |-> <<>>, op |-> "none", done |-> <<>>]

Init ==
    /\ elemFile = Absent
    /\ histFile = Absent
    /\ feedback = FALSE
    /\ selected = DefaultSelected
    /\ custom = DefaultCustom
    /\ prompt = [ok |-> TRUE, text |-> <<>>]
    /\ browser = "none"
    /\ clock = 0
    /\ added = <<>>
    /\ sess = [s \in Sessions |-> Idle]

\* The page is loaded or refreshed.
PageLoad == RunPass(selected, custom, feedback, NoClick)

\* The Add Element button.
AddElement ==
    \E title \in Titles, type \in FormTypes, content \in Contents :
        /\ Len(elemFile.rows) < MaxRows
        /\ RunPass(selected, custom, feedback,
                   [Click("add") EXCEPT !.title = title, !.type = type,
                                        !.content = content])

\* The Update button of the row at position i.
UpdateElement ==
    \E i \in DOMAIN elemFile.rows, title \in Titles, type \in FormTypes,
       content \in Contents :
      \E f \in {"All", elemFile.rows[i].type} :
        /\ i \in Rendered(load_elements(elemFile), f)
        /\ RunPass(selected, custom, feedback,
                   [Click("update") EXCEPT !.i = i, !.title = title,
                                           !.type = type, !.content = content,
                                           !.filter = f])

\* The Delete button of the row at position i.
DeleteElement ==
    \E i \in DOMAIN elemFile.rows :
      \E f \in {"All", elemFile.rows[i].type} :
        /\ i \in Rendered(load_elements(elemFile), f)
        /\ RunPass(selected, custom, feedback,
                   [Click("delete") EXCEPT !.i = i, !.filter = f])

\* The "Request recursive feedback" checkbox.
ToggleFeedback == RunPass(selected, custom, ~feedback, Click("feedback"))

\* The Save Prompt button, with the name typed beside it.
SavePrompt ==
    \E name \in Names :
        /\ Len(histFile.rows) < MaxHist
        /\ RunPass(selected, custom, feedback,
                   [Click("save") EXCEPT !.name = name])

Next ==
    \/ PageLoad
    \/ AddElement
    \/ UpdateElement
    \/ DeleteElement
    \/ ToggleFeedback
    \/ SavePrompt

Spec == Init /\ [][Next]_vars

(***************************************************************************)
(* The prompt builder alone: a library on disk and the widgets as the user *)
(* has set them, in any order; the pass then renders the prompt.           *)
(***************************************************************************)
LibTitles == {"", "t"}

\* Each row carries a content of its own, so that a content names its row.
LibContents == <<"x", "y", "z">>

\* The library files of at most MaxRows rows.
LibraryFiles ==
    {File([i \in DOMAIN rows |-> [title |-> rows[i].title, type |-> rows[i].type,
                                  content |-> LibContents[i]]])
     : rows \in UNION {[1..n -> [title : LibTitles, type : TypeSet]]
                       : n \in 0..MaxRows}}

RECURSIVE Picks(_, _)
\* The lists of at most n distinct options, in the order picked.
Picks(options, n) ==
    IF n = 0 THEN {<<>>}
    ELSE LET shorter == Picks(options, n - 1)
         IN shorter \cup {Append(s, o) : s \in shorter,
                                         o \in {x \in options : TRUE}}

NoRepeat(s) == \A i, j \in DOMAIN s : i # j => s[i] # s[j]

\* What the widgets of one category can hold: [selected, custom].
WidgetValues(c, df) ==
    LET opts == {Options(c, df)[i] : i \in DOMAIN Options(c, df)}
        sels == IF c \in MultiSelect
                THEN {Many(s) : s \in {p \in Picks(opts, MaxSel) : NoRepeat(p)}}
                ELSE {One(o) : o \in opts}
    IN UNION {{[selected |-> v, custom |-> t]
               : t \in IF InSeq(WYO, v.items) THEN Customs ELSE {""}}
              : v \in sels}

RECURSIVE WidgetStates(_, _)
\* The widget states with at most n categories set by the user.
WidgetStates(n, df) ==
    IF n = 0
    THEN {[c \in TypeSet |-> [selected |-> DefaultSelected[c], custom |-> ""]]}
    ELSE LET fewer == WidgetStates(n - 1, df)
         IN fewer \cup UNION {{[w EXCEPT ![c] = v] : v \in WidgetValues(c, df)}
                              : w \in fewer, c \in TypeSet}

BuilderInit ==
    /\ elemFile \in LibraryFiles
    /\ histFile = Absent
    /\ feedback = FALSE
    /\ \E w \in WidgetStates(MaxActive, load_elements(elemFile)) :
          /\ selected = [c \in TypeSet |-> w[c].selected]
          /\ custom = [c \in TypeSet |-> w[c].custom]
    /\ prompt = [ok |-> TRUE, text |-> <<>>]
    /\ browser = "none"
    /\ clock = 0
    /\ added = <<>>
    /\ sess = [s \in Sessions |-> Idle]

BuilderNext == PageLoad \/ ToggleFeedback

BuilderSpec == BuilderInit /\ [][BuilderNext]_vars

(***************************************************************************)
(* Two sessions on the same storage.  A handler is two file operations, a  *)
(* load of the whole table and a rewrite of the whole table, and the other *)
(* session's operations may fall between them.  Each session types a text  *)
(* of its own, so that its change is recognised in the table.              *)
(***************************************************************************)
MaxSessionOps == 1

SessionText == <<"s1", "s2">>

BaseRow == [title |-> "t", type |-> "role", content |-> "x"]

OwnRow(s) == [title |-> Str(SessionText[s]), type |-> "role",
              content |-> Str(SessionText[s])]

CanStart(s) == sess[s].pc = "idle" /\ Len(sess[s].done) < MaxSessionOps

\* Add Element: load_data, then concat in memory.
BeginAdd(s) ==
    /\ CanStart(s)
    /\ Len(elemFile.rows) <= MaxRows
    /\ sess' = [sess EXCEPT ![s] =
                  [@ EXCEPT !.pc = "elements", !.op = "add", !.seen = elemFile.rows,
                            !.df = Append(load_elements(elemFile), OwnRow(s))]]
    /\ elemFile' = load_data_file(elemFile)
    /\ UNCHANGED <<histFile, feedback, selected, custom, prompt, browser,
                   clock, added>>

\* Update: the editor's load_data, then df.at[...] in memory.
BeginUpdate(s) ==
    \E i \in DOMAIN elemFile.rows :
        /\ CanStart(s)
        /\ sess' = [sess EXCEPT ![s] =
                      [@ EXCEPT !.pc = "elements", !.op = "update",
                                !.seen = elemFile.rows,
                                !.df = [load_elements(elemFile)
                                           EXCEPT ![i] = OwnRow(s)]]]
        /\ UNCHANGED <<elemFile, histFile, feedback, selected, custom, prompt,
                       browser, clock, added>>

\* Delete: the editor's load_data, then df.drop in memory.
BeginDelete(s) ==
    \E i \in DOMAIN elemFile.rows :
        /\ CanStart(s)
        /\ sess' = [sess EXCEPT ![s] =
                      [@ EXCEPT !.pc = "elements", !.op = "delete",
                                !.seen = elemFile.rows,
                                !.df = Drop(load_elements(elemFile), i)]]
        /\ UNCHANGED <<elemFile, histFile, feedback, selected, custom, prompt,
                       browser, clock, added>>

\* save_prompt: load_data, then concat in memory.
BeginSave(s) ==
    /\ CanStart(s)
    /\ Len(histFile.rows) < MaxHist
    /\ sess' = [sess EXCEPT ![s] =
                  [@ EXCEPT !.pc = "history", !.op = "save", !.seen = histFile.rows,
                            !.df = Append(load_history(histFile),
                                          [name |-> Str(SessionText[s]),
                                           timestamp |-> clock,
                                           prompt |-> PStr(prompt.text)])]]
    /\ histFile' = load_data_file(histFile)
    /\ clock' = clock + 1
    /\ UNCHANGED <<elemFile, feedback, selected, custom, prompt, browser, added>>

WriteIfUnchanged(s) ==
    /\ sess[s].pc # "idle"
    /\ LET current == IF sess[s].pc = "elements" THEN elemFile.rows
                      ELSE histFile.rows
       IN IF current = sess[s].seen
          THEN /\ IF sess[s].pc = "elements"
                  THEN elemFile' = save_elements(sess[s].df)
                       /\ histFile' = histFile
                  ELSE histFile' = save_history(sess[s].df)
                       /\ elemFile' = elemFile
               /\ sess' = [sess EXCEPT ![s] =
                             [@ EXCEPT !.pc = "idle", !.df = <<>>, !.seen = <<>>,
                                       !.done = Append(@, sess[s].op)]]
          ELSE /\ UNCHANGED <<elemFile, histFile>>
               /\ sess' = [sess EXCEPT ![s] =
                             [@ EXCEPT !.pc = "idle", !.df = <<>>, !.seen = <<>>]]
    /\ UNCHANGED <<feedback, selected, custom, prompt, browser, clock, added>>

\* save_data, then st.success: the table in memory replaces the file.
Write(s) ==
    /\ sess[s].pc # "idle"
    /\ IF sess[s].pc = "elements"
       THEN elemFile' = save_elements(sess[s].df) /\ histFile' = histFile
       ELSE histFile' = save_history(sess[s].df) /\ elemFile' = elemFile
    /\ sess' = [sess EXCEPT ![s] =
                  [@ EXCEPT !.pc = "idle", !.df = <<>>, !.seen = <<>>,
                            !.done = Append(@, sess[s].op)]]
    /\ UNCHANGED <<feedback, selected, custom, prompt, browser, clock, added>>

ConcInit ==
    /\ elemFile = File(<<BaseRow>>)
    /\ histFile = Absent
    /\ feedback = FALSE
    /\ selected = DefaultSelected
    /\ custom = DefaultCustom
    /\ prompt = [ok |-> TRUE, text |-> <<>>]
    /\ browser = "warning"
    /\ clock = 0
    /\ added = <<>>
    /\ sess = [s \in Sessions |-> Idle]

ConcNext ==
    \E s \in Sessions :
        \/ BeginAdd(s)
        \/ BeginUpdate(s)
        \/ BeginDelete(s)
        \/ BeginSave(s)
        \/ Write(s)

ConcSpec == ConcInit /\ [][ConcNext]_vars

(***************************************************************************)
(* Reading a rendered prompt.                                              *)
(***************************************************************************)
\* The pass has rendered the builder and the tabs after it.
Rendered_ok == prompt.ok /\ browser # "none"

\* _generate_prompt raised: the pass stopped inside the builder.
Crashed == ~prompt.ok

Library == load_elements(elemFile)

Labels == {SectionTitle(c) : c \in TypeSet}

\* The place of a category in the declaration order.
Rank(c) == CHOOSE i \in DOMAIN ELEMENT_TYPES : ELEMENT_TYPES[i] = c

\* The positions of the text at which a section starts.
Starts(text) == {i \in DOMAIN text : text[i] \in Labels}

\* The category whose label stands at position i.
CategoryAt(text, i) == CHOOSE c \in TypeSet : SectionTitle(c) = text[i]

BlankLineAt(text, j) ==
    j + 1 <= Len(text) /\ text[j] = "\n" /\ text[j + 1] = "\n"

\* The content of the section labelled by category c, or <<"?">> when the
\* text has no such section.
SectionContent(text, c) ==
    LET at == {i \in DOMAIN text : text[i] = SectionTitle(c)}
    IN IF at = {} THEN <<"?">>
       ELSE LET from == (CHOOSE i \in at : TRUE) + 3
                stops == {j \in from..Len(text) : BlankLineAt(text, j)}
                upto == IF stops = {} THEN Len(text)
                        ELSE (CHOOSE j \in stops : \A k \in stops : j <= k) - 1
            IN SubSeq(text, from, upto)

IsSentinel(v) == v = Skip \/ v = WYO

\* The fragment references of a widget value.
Refs(c) == SelectSeq(selected[c].items, LAMBDA a : ~IsSentinel(a))

\* A category that adds a section to the prompt.
Contributes(c) ==
    IF c \in MultiSelect
    THEN IF InSeq(WYO, selected[c].items) THEN custom[c] # ""
         ELSE Len(Refs(c)) > 0
    ELSE selected[c] # One(Skip)

(***************************************************************************)
(* C1: the sections of a rendered prompt stand in the order role, goal,    *)
(* audience, context, output, tone, one section for each category that     *)
(* contributes, whatever the widgets hold, and each section after the      *)
(* first is separated from the text before it by exactly one blank line.   *)
(***************************************************************************)
C1_FixedOrder ==
    Rendered_ok =>
      LET text == prompt.text
          starts == Starts(text)
      IN /\ {CategoryAt(text, i) : i \in starts} = {c \in TypeSet : Contributes(c)}
         /\ \A i, j \in starts :
               i < j => Rank(CategoryAt(text, i)) < Rank(CategoryAt(text, j))
         /\ \A i \in starts :
               \/ i = 1
               \/ /\ i > 3
                  /\ text[i - 1] = "\n" /\ text[i - 2] = "\n"
                  /\ text[i - 3] # "\n"
         /\ \A j \in DOMAIN text :
               BlankLineAt(text, j) =>
                  /\ j + 2 <= Len(text)
                  /\ text[j + 2] \in Labels \cup {FEEDBACK}

\* A prompt of two sections whose categories the declaration order and
\* the alphabet order differently.
C1_Witness ==
    /\ Rendered_ok
    /\ Contributes("role") /\ Contributes("audience")
    /\ Cardinality(Starts(prompt.text)) = 2

(***************************************************************************)
(* C2: when every category is skipped the prompt is empty, or holds only   *)
(* the feedback instruction when recursive feedback is requested, for      *)
(* every library.                                                          *)
(***************************************************************************)
AllSkipped ==
    \A c \in TypeSet :
        IF c \in MultiSelect
        THEN selected[c].items \in {<<>>, <<Skip>>}
        ELSE selected[c] = One(Skip)

PassHasRun == Crashed \/ browser # "none"

C2_AllSkippedEmpty ==
    (AllSkipped /\ PassHasRun) =>
       /\ prompt.ok
       /\ prompt.text = IF feedback THEN <<"\n", "\n", FEEDBACK>> ELSE <<>>

C2_Witness ==
    /\ AllSkipped /\ Rendered_ok /\ feedback
    /\ selected["audience"].items = <<Skip>>
    /\ selected["role"] = One(Skip)
    /\ Len(elemFile.rows) = 2

(***************************************************************************)
(* C3: a multi-select category whose selection holds "Write your own"      *)
(* together with fragment titles renders the free text alone (no section   *)
(* when the free text is empty), and looks no title up: a title with no    *)
(* matching row does not make the pass fail.                               *)
(***************************************************************************)
Mixed(c) ==
    c \in MultiSelect /\ InSeq(WYO, selected[c].items) /\ Len(Refs(c)) > 0

OthersIdle(c) ==
    \A d \in TypeSet \ {c} : selected[d] = DefaultSelected[d]

C3_FreeTextOnly ==
    \A c \in MultiSelect :
       (Mixed(c) /\ PassHasRun) =>
          /\ OthersIdle(c) => prompt.ok
          /\ prompt.ok =>
               SectionContent(prompt.text, c) =
                  IF custom[c] = "" THEN <<"?">> ELSE <<custom[c]>>

C3_Witness ==
    /\ Mixed("context") /\ Rendered_ok /\ custom["context"] = "w"
    /\ \E i \in DOMAIN Library :
          Library[i].type = "context" /\ Library[i].title = Str("t")
                                     /\ InSeq(Str("t"), selected["context"].items)

(***************************************************************************)
(* Reading the tables.                                                     *)
(***************************************************************************)
\* A row of the library as the editor shows it.
RowText(r) == <<Format(r.title), r.type, Format(r.content)>>

TableText(df) == [i \in DOMAIN df |-> RowText(df[i])]

IsPrefix(a, b) == Len(a) <= Len(b) /\ SubSeq(b, 1, Len(a)) = a

\* What read_csv makes of a typed string once it has been written.
ReadBack(cell, typed) ==
    IF typed \in NA_VALUES THEN cell = NaN
    ELSE IF typed \in NUMERIC THEN cell.k \in {"num", "str"} /\ cell.s \in NUMERIC
    ELSE cell = Str(typed)

(***************************************************************************)
(* C4: a Delete followed by the reload leaves one row less, and the rows   *)
(* left show the titles, types and contents they showed before, in the     *)
(* same order.  (Delete is the one step that shortens the library.)        *)
(***************************************************************************)
C4_DeleteKeepsOthers ==
    [][Len(elemFile'.rows) < Len(elemFile.rows) =>
         LET before == TableText(load_elements(elemFile))
             after == TableText(load_elements(elemFile'))
         IN \E i \in DOMAIN before : after = Drop(before, i)]_vars

(***************************************************************************)
(* C5: the persisted history only grows at its end: the rows saved before  *)
(* a step are a prefix of the rows saved after it.                         *)
(***************************************************************************)
C5_HistoryAppendOnly ==
    [][histFile.exists => IsPrefix(histFile.rows, histFile'.rows)]_vars

C7_BrowserCreatesFile ==
    browser = "warning" => histFile.exists /\ histFile.rows = <<>>

(***************************************************************************)
(* C7, amended: a read through load_data of a missing file gives the empty *)
(* table and creates the file with the header only (the library in every   *)
(* pass, the history in save_prompt, which then appends to the empty       *)
(* table); the Browse Prompts tab reads the history file itself, and a     *)
(* missing file there gives a warning and stays missing.                   *)
(***************************************************************************)
C7_MissingFiles ==
    [][/\ ~elemFile.exists =>
            /\ elemFile'.exists
            /\ Len(elemFile'.rows) = IF added' = <<>> THEN 0 ELSE 1
       /\ ~histFile.exists =>
            IF histFile'.exists
            THEN Len(histFile'.rows) = 1 /\ browser' = "listed"
            ELSE browser' = "warning"]_vars

C7_Witness ==
    /\ elemFile = File(<<>>)
    /\ ~histFile.exists
    /\ browser = "warning"

(***************************************************************************)
(* C8: a session that ends a handler rewrites the whole file with the      *)
(* table it loaded and changed, whatever the file holds by then, and is    *)
(* told it succeeded; so a change the other session made in between is     *)
(* lost.                                                                   *)
(***************************************************************************)
C8_LastWriterWins ==
    [][\A s \in Sessions :
          (sess[s].pc # "idle" /\ sess'[s].pc = "idle") =>
             /\ sess'[s].done = Append(sess[s].done, sess[s].op)
             /\ sess[s].pc = "elements" => elemFile' = save_elements(sess[s].df)
             /\ sess[s].pc = "history" => histFile' = save_history(sess[s].df)]_vars

\* Both sessions were told their Add succeeded; the row of session 1 is
\* not in the library.
C8_Witness ==
    /\ \A s \in Sessions : sess[s].pc = "idle" /\ sess[s].done = <<"add">>
    /\ elemFile.rows = <<BaseRow, write_elements(<<OwnRow(2)>>)[1]>>

(***************************************************************************)
(* C9: when a selection that is looked up names a title matching no row of *)
(* the loaded table, the pass fails inside _generate_prompt and no prompt  *)
(* is produced.                                                            *)
(***************************************************************************)
LookedUp(c) ==
    IF c \in MultiSelect
    THEN IF InSeq(WYO, selected[c].items) \/ selected[c].items = <<Skip>>
         THEN {}
         ELSE {Refs(c)[i] : i \in DOMAIN Refs(c)}
    ELSE {selected[c].items[1]} \ {Skip, WYO}

Unmatched ==
    \E c \in TypeSet : \E a \in LookedUp(c) :
        \A i \in DOMAIN Library : ~Match(Library[i].title, a)

C9_UnmatchedFails ==
    (Unmatched /\ PassHasRun) =>
        /\ Crashed
        /\ prompt.text = <<>>
        /\ browser = "none"

C9_Witness == Unmatched /\ Crashed /\ Len(elemFile.rows) = 2

(***************************************************************************)
(* C10: the content rendered in the section of category c for a selected   *)
(* title is the content of a library row of that title and of type c.      *)
(***************************************************************************)
ContentsOf(c, a) ==
    {Format(Library[i].content) :
        i \in {j \in DOMAIN Library :
                  Library[j].type = c /\ Match(Library[j].title, a)}}

C10_OwnCategory ==
    Rendered_ok =>
       \A c \in TypeSet \ MultiSelect :
          ~IsSentinel(selected[c].items[1]) =>
             SectionContent(prompt.text, c) \in ContentsOf(c, selected[c].items[1])

====
